---- MODULE Spec2Model ----
\* Recording-session controller and upload retrier of src/App.js.
\*
\* App is a React function component.  Every useState value is captured by
\* the closures of the render that created them; the ref recordingRef is
\* shared by all renders.  stopRecording is memoised with
\* useCallback(..., [fileName]): the closure in use is the one of the render
\* in which fileName last changed, and it carries that render's timerId and
\* isConnected (through clearTimer and attemptUploadFile of the same render).
\* Every await is a suspension point, so a handler is one action per
\* synchronous stretch.  Recorder, permission and HTTP outcomes are inputs.
\*
\* Two specifications share the definitions: Spec is the session controller
\* up to the hand-over of the artifact to attemptUploadFile, UploadSpec is
\* one upload from that hand-over on.
EXTENDS Integers, Sequences, FiniteSets, TLC

\* ---------------------------------------------------------------- bounds
\* recorder handles created plus startRecording invocations in flight
MaxSessions == 2
\* user-invoked stopRecording invocations in flight
MaxStops == 1
\* edits of the file-name field
MaxEdits == 1
\* connectivity changes delivered by NetInfo
MaxNetEvents == 1
\* presses of "Save Server URL"
MaxSaves == 1

\* ------------------------------------------------------- program constants
InitialDelay == 30000
MaxAttempts == 5
SecondsPerHour == 3600
SecondsPerMinute == 60

NULL == 0
NaN == -1

\* texts the user can type into the form fields
FileNameTexts == {"", " a"}
DurationTexts == {"", "0", "x", "1"}
ServerUrlTexts == {"", " ", "http://s"}
DefaultName == "recording_<ISO>.m4a"
\* how the try block of startRecording can end
RecorderOutcomes == {"created", "modeThrows", "createThrows"}

VARIABLES
    fileName,      \* useState fileName
    uploadEndpoint, \* useState uploadEndpoint
    timerId,       \* useState timerId
    isConnected,   \* useState isConnected
    isRecording,   \* useState isRecording
    loading,       \* useState loading
    recordingRef,  \* recordingRef.current
    stopCb,        \* the memoised stopRecording closure
    timers,        \* pending duration timers (setTimeout of startTimer)
    starts,        \* suspended startRecording invocations
    stops,         \* suspended stopRecording invocations
    jobs,          \* attemptUploadFile closures, one per submitted upload
    live,          \* recorder handles created and not yet unloaded
    sess,          \* per recorder handle: how it was started and stopped
    alert,         \* title of the Alert.alert shown by the last step
    used           \* file-name edits, connectivity changes and URL saves so far

vars == <<fileName, uploadEndpoint, timerId, isConnected, isRecording, loading, recordingRef,
          stopCb, timers, starts, stops, jobs, live, sess, alert, used>>

formVars == <<fileName, uploadEndpoint, stopCb>>
sessionVars == <<timerId, isRecording, recordingRef, timers, starts, stops, live, sess>>

\* ------------------------------------------------------------ pure helpers
RemoveAt(s, i) == SubSeq(s, 1, i - 1) \o SubSeq(s, i + 1, Len(s))

\* parseInt on the texts of DurationTexts
parseInt(s) == CASE s = "0" -> 0 [] s = "1" -> 1 [] OTHER -> NaN

\* parseInt(x) || 0
OrZero(n) == IF n = NaN \/ n = 0 THEN 0 ELSE n

\* String.prototype.trim on the texts of FileNameTexts
trim(s) == IF s = " a" THEN "a" ELSE s

\* fileName.trim() || `recording_${new Date().toISOString()}.m4a`
UploadName(fn) == IF trim(fn) = "" THEN DefaultName ELSE trim(fn)

\* duration computed by startTimer
duration(h, m) == (OrZero(parseInt(h)) * SecondsPerHour) + (OrZero(parseInt(m)) * SecondsPerMinute)

\* if (hours || minutes)
TimerRequested(h, m) == h # "" \/ m # ""

\* the closure of stopRecording created by a render (uploadEndpoint is read
\* by the uploadFile of the same render)
Closure(tid, fn, conn, ep) ==
    [timerId |-> tid, fileName |-> fn, isConnected |-> conn, endpoint |-> ep]

\* String.prototype.trim on the texts of ServerUrlTexts
trimUrl(s) == IF s = " " THEN "" ELSE s

\* `${serverUrl}/upload`
Endpoint(url) == url \o "/upload"

\* clearTimer run with the timerId its closure captured
clearTimerSet(tid, ts) == IF tid # NULL THEN {t \in ts : t.id # tid} ELSE ts
clearTimerId(tid, cur) == IF tid # NULL THEN NULL ELSE cur

\* guards of the two handlers
StartUnguarded(ref) == FALSE
StartRejected(ref) == ref # NULL
StopUnguarded(ref) == FALSE
StopRejected(ref) == ref = NULL

\* retry policy of uploadFileWithRetries
RetryOnceMore(attempts) == attempts <= MaxAttempts
ShouldRetry(attempts) == attempts < MaxAttempts
LinearDelay(d) == d + InitialDelay
NextDelay(d) == d * 2

\* ----------------------------------------------------------------- Init
Init ==
    /\ fileName = ""
    /\ uploadEndpoint = ""
    /\ timerId = NULL
    /\ isConnected = TRUE
    /\ isRecording = FALSE
    /\ loading = FALSE
    /\ recordingRef = NULL
    /\ stopCb = Closure(NULL, "", TRUE, "")
    /\ timers = {}
    /\ starts = <<>>
    /\ stops = <<>>
    /\ jobs = <<>>
    /\ live = {}
    /\ sess = <<>>
    /\ alert = "none"
    /\ used = [edits |-> 0, net |-> 0, saves |-> 0]

\* ------------------------------------------------------------ form fields
\* onChangeText of the file-name field; the re-render recreates stopRecording
setFileName(v) ==
    /\ v # fileName
    /\ used.edits < MaxEdits
    /\ used' = [used EXCEPT !.edits = @ + 1]
    /\ fileName' = v
    /\ stopCb' = Closure(timerId, v, isConnected, uploadEndpoint)
    /\ alert' = "none"
    /\ UNCHANGED <<uploadEndpoint, isConnected, loading, jobs>>
    /\ UNCHANGED sessionVars

\* handleSaveServerUrl, with serverUrl the text of the server-URL field in the
\* render the handler belongs to
handleSaveServerUrl(serverUrl) ==
    /\ used.saves < MaxSaves
    /\ used' = [used EXCEPT !.saves = @ + 1]
    /\ IF trimUrl(serverUrl) = ""
       THEN /\ alert' = "Invalid Input"
            /\ UNCHANGED uploadEndpoint
       ELSE /\ uploadEndpoint' = Endpoint(serverUrl)
            /\ alert' = "Success"
    /\ UNCHANGED <<fileName, stopCb, isConnected, loading, jobs>>
    /\ UNCHANGED sessionVars

\* NetInfo.addEventListener callback
NetInfoEvent(c) ==
    /\ c # isConnected
    /\ used.net < MaxNetEvents
    /\ used' = [used EXCEPT !.net = @ + 1]
    /\ isConnected' = c
    /\ alert' = IF c THEN "none" ELSE "Network Error: check settings"
    /\ UNCHANGED <<loading, jobs>>
    /\ UNCHANGED formVars
    /\ UNCHANGED sessionVars

\* ---------------------------------------------------------- startRecording
\* startRecording up to its first await.  hours and minutes are the texts of
\* the two duration fields in the render the handler belongs to (they are read
\* by startRecording and startTimer only).  The handler is an operation of the
\* controller: it can be invoked in any state, whatever the button shows.
startRecording(hours, minutes) ==
    /\ IF StartRejected(recordingRef)
       THEN /\ alert' = "Recording in Progress"
            /\ UNCHANGED starts
       ELSE /\ Len(sess) + Len(starts) < MaxSessions
            /\ starts' = Append(starts, [pc |-> "perm", isConnected |-> isConnected,
                                         arm |-> TimerRequested(hours, minutes)
                                                   /\ duration(hours, minutes) > 0,
                                         timerId |-> timerId, cb |-> stopCb])
            /\ alert' = "none"
    /\ UNCHANGED <<timerId, isRecording, recordingRef, timers, stops, live, sess>>
    /\ UNCHANGED <<isConnected, loading, jobs>>
    /\ UNCHANGED <<formVars, used>>

\* if (!isConnected), on the value the invocation captured
OfflineIgnored(conn) == FALSE
Offline(conn) == ~conn

\* await Audio.requestPermissionsAsync() resolves; connectivity check follows
startPermission(i, granted) ==
    /\ i \in DOMAIN starts
    /\ starts[i].pc = "perm"
    /\ IF ~granted
       THEN /\ alert' = "Permission required"
            /\ starts' = RemoveAt(starts, i)
       ELSE IF Offline(starts[i].isConnected)
       THEN /\ alert' = "Network Error: before recording"
            /\ starts' = RemoveAt(starts, i)
       ELSE /\ starts' = [starts EXCEPT ![i].pc = "record"]
            /\ alert' = "none"
    /\ UNCHANGED <<timerId, isRecording, recordingRef, timers, stops, live, sess>>
    /\ UNCHANGED <<isConnected, loading, jobs>>
    /\ UNCHANGED <<formVars, used>>

\* catch block of startRecording
startFailed(i) ==
    /\ alert' = "Error"
    /\ recordingRef' = NULL
    /\ isRecording' = FALSE
    /\ starts' = RemoveAt(starts, i)
    /\ UNCHANGED <<timerId, timers, stops, live, sess>>

\* the body of startTimer when duration > 0, run in the closure of the
\* startRecording invocation inv for the recorder handle h
startTimer(inv, h) ==
    /\ timers' = clearTimerSet(inv.timerId, timers)
                   \cup {[id |-> h, cb |-> inv.cb, session |-> h]}
    /\ timerId' = h

\* the try block of startRecording: await Audio.setAudioModeAsync(...) and
\* await Audio.Recording.createAsync(...) resolve, or one of them throws (no
\* state is read or written between the two awaits)
startCreate(i, outcome) ==
    /\ i \in DOMAIN starts
    /\ starts[i].pc = "record"
    /\ IF outcome = "created"
       THEN LET h == Len(sess) + 1
                inv == starts[i] IN
            /\ live' = live \cup {h}
            /\ sess' = Append(sess, [timed |-> inv.arm, manual |-> FALSE,
                                     auto |-> FALSE, expired |-> FALSE])
            /\ recordingRef' = h
            /\ isRecording' = TRUE
            /\ starts' = RemoveAt(starts, i)
            /\ IF inv.arm
               THEN startTimer(inv, h)
               ELSE UNCHANGED <<timers, timerId>>
            /\ alert' = "none"
            /\ UNCHANGED stops
       ELSE startFailed(i)
    /\ UNCHANGED <<isConnected, loading, jobs>>
    /\ UNCHANGED <<formVars, used>>

\* ----------------------------------------------------------- stopRecording
\* stopRecording up to its first await, run in closure cb with the pending
\* timers ts
stopRecording(origin, cb, ts) ==
    /\ IF StopRejected(recordingRef)
       THEN /\ alert' = "No Recording"
            /\ timers' = ts
            /\ UNCHANGED <<timerId, stops>>
       ELSE /\ timers' = clearTimerSet(cb.timerId, ts)
            /\ timerId' = clearTimerId(cb.timerId, timerId)
            /\ stops' = Append(stops, [pc |-> "unload", origin |-> origin,
                                       fileName |-> cb.fileName,
                                       isConnected |-> cb.isConnected,
                                       endpoint |-> cb.endpoint,
                                       target |-> recordingRef, uri |-> NULL])
            /\ alert' = "none"
    /\ UNCHANGED <<isRecording, recordingRef, starts, live>>

\* the user invokes stopRecording (the memoised closure of the last render)
userStop ==
    /\ StopRejected(recordingRef) \/ Len(stops) < MaxStops
    /\ stopRecording("user", stopCb, timers)
    /\ sess' = IF recordingRef = NULL THEN sess
               ELSE [sess EXCEPT ![recordingRef].manual = TRUE]
    /\ UNCHANGED <<isConnected, loading, jobs>>
    /\ UNCHANGED <<formVars, used>>

\* the setTimeout callback armed by startTimer runs
timerExpiry(t) ==
    /\ t \in timers
    /\ stopRecording("timer", t.cb, timers \ {t})
    /\ sess' = [h \in DOMAIN sess |->
                  [sess[h] EXCEPT !.expired = @ \/ h = t.session,
                                  !.auto = @ \/ h = recordingRef]]
    /\ UNCHANGED <<isConnected, loading, jobs>>
    /\ UNCHANGED <<formVars, used>>

\* catch block of stopRecording
stopFailed(i) ==
    /\ alert' = "Error"
    /\ stops' = RemoveAt(stops, i)

\* await recordingRef.current.stopAndUnloadAsync() resolves or throws; on
\* resolution getURI() is read from the ref as it is now: hasUri tells whether
\* the recorder reports a URI
stopUnload(i, ok, hasUri) ==
    /\ i \in DOMAIN stops
    /\ stops[i].pc = "unload"
    /\ IF ~ok
       THEN /\ stopFailed(i)
            /\ UNCHANGED <<recordingRef, isRecording, live>>
       ELSE /\ live' = live \ {stops[i].target}
            /\ IF recordingRef = NULL
               THEN /\ stopFailed(i)
                    /\ UNCHANGED <<recordingRef, isRecording>>
               ELSE /\ stops' = [stops EXCEPT ![i].pc = "mode",
                                              ![i].uri = IF hasUri THEN recordingRef ELSE NULL]
                    /\ recordingRef' = NULL
                    /\ isRecording' = FALSE
                    /\ alert' = "none"
    /\ UNCHANGED <<timerId, timers, starts, sess>>
    /\ UNCHANGED <<isConnected, loading, jobs>>
    /\ UNCHANGED <<formVars, used>>

\* ---------------------------------------------------------------- upload
\* attemptUploadFile(uri, name) up to the first suspension: the closure
\* variables attempts and delay, and the first run of uploadFileWithRetries
\* (calls, waits and successes count its HTTP calls, its retry setTimeouts
\* and its success alerts)
NewJob(uri, name, conn, ep) ==
    [uri |-> uri, name |-> name, endpoint |-> ep, isConnected |-> conn,
     attempts |-> 0, delay |-> InitialDelay,
     state |-> IF conn THEN "InFlight" ELSE "Offline",
     calls |-> IF conn THEN 1 ELSE 0, waits |-> <<>>, successes |-> 0]

\* the try branch of uploadFileWithRetries after uploadFile resolved
RetryAfterSuccess(job) ==
    [job EXCEPT !.state = "Scheduled", !.successes = @ + 1]
UploadSucceeded(job) ==
    [job EXCEPT !.state = "Succeeded", !.successes = @ + 1]

\* the catch branch of uploadFileWithRetries
UploadFailed(job) ==
    IF ShouldRetry(job.attempts + 1)
    THEN [job EXCEPT !.attempts = @ + 1, !.state = "Scheduled",
                     !.waits = Append(@, job.delay), !.delay = NextDelay(@)]
    ELSE [job EXCEPT !.attempts = @ + 1, !.state = "Exhausted"]

\* uploadFileWithRetries run by the retry setTimeout
RetryTickCounting(job) ==
    IF ~job.isConnected
    THEN [job EXCEPT !.state = "Offline"]
    ELSE [job EXCEPT !.state = "InFlight", !.calls = @ + 1, !.attempts = @ + 1]
RetryTick(job) ==
    IF ~job.isConnected
    THEN [job EXCEPT !.state = "Offline"]
    ELSE [job EXCEPT !.state = "InFlight", !.calls = @ + 1]

\* await Audio.setAudioModeAsync(...) in stopRecording resolves or throws;
\* the upload is submitted when the URI is not empty
stopAudioMode(i, ok) ==
    /\ i \in DOMAIN stops
    /\ stops[i].pc = "mode"
    /\ IF ~ok
       THEN /\ stopFailed(i)
            /\ UNCHANGED <<jobs, loading>>
       ELSE /\ stops' = RemoveAt(stops, i)
            /\ IF stops[i].uri # NULL
               THEN /\ jobs' = Append(jobs, NewJob(stops[i].uri, UploadName(stops[i].fileName),
                                                   stops[i].isConnected, stops[i].endpoint))
                    /\ loading' = IF stops[i].isConnected THEN TRUE ELSE loading
                    /\ alert' = IF stops[i].isConnected THEN "none"
                                ELSE "Network Error: retrying upload"
               ELSE /\ alert' = "none"
                    /\ UNCHANGED <<jobs, loading>>
    /\ UNCHANGED <<timerId, isRecording, recordingRef, timers, starts, live, sess>>
    /\ UNCHANGED isConnected
    /\ UNCHANGED <<formVars, used>>

\* axios.post settles: status 200, or another status or a network error
uploadResponse(j, ok) ==
    /\ j \in DOMAIN jobs
    /\ jobs[j].state = "InFlight"
    /\ jobs' = [jobs EXCEPT ![j] = IF ok THEN UploadSucceeded(@) ELSE UploadFailed(@)]
    /\ loading' = IF ok \/ jobs'[j].state = "Exhausted" THEN FALSE ELSE loading
    /\ alert' = IF ok THEN "Upload Success"
                ELSE IF jobs'[j].state = "Exhausted" THEN "Upload Error" ELSE "none"
    /\ UNCHANGED isConnected
    /\ UNCHANGED <<formVars, used>>
    /\ UNCHANGED sessionVars

\* the retry timer of job j expires
retryTick(j) ==
    /\ j \in DOMAIN jobs
    /\ jobs[j].state = "Scheduled"
    /\ jobs' = [jobs EXCEPT ![j] = RetryTick(@)]
    /\ loading' = IF jobs[j].isConnected THEN TRUE ELSE loading
    /\ alert' = IF jobs[j].isConnected THEN "none"
                ELSE "Network Error: retrying upload"
    /\ UNCHANGED isConnected
    /\ UNCHANGED <<formVars, used>>
    /\ UNCHANGED sessionVars

\* -------------------------------------------------------- specifications
Next ==
    \/ \E v \in FileNameTexts : setFileName(v)
    \/ \E u \in ServerUrlTexts : handleSaveServerUrl(u)
    \/ \E c \in BOOLEAN : NetInfoEvent(c)
    \/ \E h \in DurationTexts, m \in DurationTexts : startRecording(h, m)
    \/ \E i \in DOMAIN starts, b \in BOOLEAN : startPermission(i, b)
    \/ \E i \in DOMAIN starts, o \in RecorderOutcomes : startCreate(i, o)
    \/ userStop
    \/ \E t \in timers : timerExpiry(t)
    \/ \E i \in DOMAIN stops, b \in BOOLEAN, u \in BOOLEAN : stopUnload(i, b, u)
    \/ \E i \in DOMAIN stops, b \in BOOLEAN : stopAudioMode(i, b)

Spec == Init /\ [][Next]_vars

\* One recording has been stopped and unloaded with a URI; stopRecording is
\* suspended on its last await, holding the closure in which it was created.
UploadInit ==
    \E fn \in FileNameTexts, cur \in BOOLEAN, captured \in BOOLEAN,
       ep \in {"", Endpoint("http://s")} :
        /\ fileName = fn
        /\ uploadEndpoint = Endpoint("http://s")
        /\ timerId = NULL
        /\ isConnected = cur
        /\ isRecording = FALSE
        /\ loading = FALSE
        /\ recordingRef = NULL
        /\ stopCb = Closure(NULL, fn, captured, ep)
        /\ timers = {}
        /\ starts = <<>>
        /\ stops = <<[pc |-> "mode", origin |-> "user", fileName |-> fn,
                      isConnected |-> captured, endpoint |-> ep,
                      target |-> 1, uri |-> 1]>>
        /\ jobs = <<>>
        /\ live = {}
        /\ sess = <<[timed |-> FALSE, manual |-> TRUE, auto |-> FALSE, expired |-> FALSE]>>
        /\ alert = "none"
        /\ used = [edits |-> 0, net |-> 0, saves |-> 0]

UploadNext ==
    \/ \E c \in BOOLEAN : NetInfoEvent(c)
    \/ \E i \in DOMAIN stops, b \in BOOLEAN : stopAudioMode(i, b)
    \/ \E j \in DOMAIN jobs, b \in BOOLEAN : uploadResponse(j, b)
    \/ \E j \in DOMAIN jobs : retryTick(j)

UploadSpec == UploadInit /\ [][UploadNext]_vars

\* The same with the scheduling of the runtime: a pending await settles, an
\* HTTP call settles (axios resolves or rejects), an armed setTimeout fires.
UploadFairSpec ==
    /\ UploadSpec
    /\ WF_vars(\E i \in DOMAIN stops, b \in BOOLEAN : stopAudioMode(i, b))
    /\ WF_vars(\E j \in DOMAIN jobs, b \in BOOLEAN : uploadResponse(j, b))
    /\ WF_vars(\E j \in DOMAIN jobs : retryTick(j))

\* ------------------------------------------------------------------ claims
\* A session is Active while recordingRef.current holds a recorder handle and
\* Idle while it is null.

\* C1: in every reachable state at most one recorder handle has been acquired
\* and not yet released, also when two startRecording calls overlap.
C1_AtMostOneActive == Cardinality(live) <= 1

\* C2: a startRecording call made while a handle is held shows the
\* "Recording in Progress" alert and changes nothing else: no new invocation,
\* handle, timer or job, and the ref, timerId and isRecording keep their values.
C2_StartWhileActiveRejected ==
    [][\A h \in DurationTexts, m \in DurationTexts :
          (startRecording(h, m) /\ recordingRef # NULL)
              => /\ alert' = "Recording in Progress"
                 /\ UNCHANGED <<recordingRef, timerId, isRecording, timers,
                                starts, stops, live, sess, jobs, loading>>]_vars

C2_Witness ==
    /\ alert = "Recording in Progress"
    /\ recordingRef # NULL
    /\ isRecording
    /\ \E t \in timers : t.session = recordingRef

\* C3: a stopRecording call (by the user or by a timer) made while no handle
\* is held shows the "No Recording" alert, releases nothing, starts no
\* stopRecording continuation, creates no job, issues no HTTP call and leaves
\* the session Idle.
C3_StopWhileIdleRejected ==
    [][((userStop \/ \E t \in timers : timerExpiry(t)) /\ recordingRef = NULL)
          => /\ alert' = "No Recording"
             /\ recordingRef' = NULL
             /\ timers' \subseteq timers
             /\ UNCHANGED <<timerId, isRecording, starts, stops, live,
                            jobs, loading>>]_vars

C3_Witness ==
    /\ alert = "No Recording"
    /\ recordingRef = NULL
    /\ stops = <<>>
    /\ Len(sess) > 0

\* C4: a session started with duration 0 arms no timer and is never stopped
\* by a timer: only a user call of stopRecording makes it leave Active.
C4_UntimedOnlyManualStop ==
    /\ \A t \in timers : sess[t.session].timed
    /\ \A h \in DOMAIN sess : ~sess[h].timed => ~sess[h].auto

\* C5: a session started with duration > 0 and not stopped by the user has,
\* once its timer has expired and every stopRecording invocation has run to
\* its end, released its handle and left the ref empty.
C5_TimedSessionAutoStops ==
    \A h \in DOMAIN sess :
        (sess[h].timed /\ ~sess[h].manual /\ sess[h].expired /\ stops = <<>>)
            => (h \notin live /\ recordingRef # h)

\* C6: the timer armed by a session that the user has stopped never fires.
C6_ManualStopCancelsTimer ==
    [][\A t \in timers : sess[t.session].manual => ~timerExpiry(t)]_vars

\* C7: the waits scheduled by a job are 30000, 60000, 120000, 240000 ms, one
\* after each of the first four failures and none after the fifth.
C7_BackoffSequence ==
    LET W == <<30000, 60000, 120000, 240000>> IN
    \A j \in DOMAIN jobs :
        /\ Len(jobs[j].waits) = IF jobs[j].attempts < 5 THEN jobs[j].attempts ELSE 4
        /\ \A k \in 1..Len(jobs[j].waits) : jobs[j].waits[k] = W[k]

C7_Witness ==
    \E j \in DOMAIN jobs :
        /\ jobs[j].state = "Exhausted"
        /\ jobs[j].waits = <<30000, 60000, 120000, 240000>>

\* C8: a job issues at most 5 HTTP calls; its attempt counter grows by one at
\* each failed call and at no other step; it is Exhausted exactly when its
\* 5th call has failed; an Exhausted job never changes again.
C8_AtMostFiveAttempts ==
    /\ [](\A j \in DOMAIN jobs :
            /\ jobs[j].calls <= 5
            /\ jobs[j].attempts <= jobs[j].calls
            /\ (jobs[j].state = "Exhausted") <=> (jobs[j].attempts = 5)
            /\ jobs[j].state = "Exhausted" => jobs[j].calls = 5)
    /\ [][\A j \in DOMAIN jobs :
            /\ jobs'[j].attempts =
                 jobs[j].attempts + IF uploadResponse(j, FALSE) THEN 1 ELSE 0
            /\ jobs[j].state = "Exhausted" => jobs'[j] = jobs[j]]_vars

C8_Witness ==
    \E j \in DOMAIN jobs :
        jobs[j].state = "Exhausted" /\ jobs[j].calls = 5 /\ alert = "Upload Error"

\* C9: when an HTTP call of a job succeeds the job becomes Succeeded and the
\* success alert is shown; a Succeeded job has shown it once, has made between
\* 1 and 5 calls, and never changes again (no call, tick or Exhausted).
C9_SuccessIsFinal ==
    /\ [](\A j \in DOMAIN jobs :
            /\ jobs[j].successes = IF jobs[j].state = "Succeeded" THEN 1 ELSE 0
            /\ jobs[j].state = "Succeeded"
                 => jobs[j].calls \in 1..5 /\ jobs[j].calls = jobs[j].attempts + 1)
    /\ [][\A j \in DOMAIN jobs :
            /\ uploadResponse(j, TRUE)
                 => jobs'[j].state = "Succeeded" /\ alert' = "Upload Success"
            /\ jobs[j].state = "Succeeded" => jobs'[j] = jobs[j]]_vars

C9_Witness ==
    \E j \in DOMAIN jobs :
        jobs[j].state = "Succeeded" /\ jobs[j].calls = 5 /\ alert = "Upload Success"

\* C10: a retry tick that fires while the connectivity last delivered by
\* NetInfo is false issues no HTTP call and does not change the attempt
\* counter.
C10_OfflineTickIssuesNoCall ==
    [][\A j \in DOMAIN jobs :
          (retryTick(j) /\ ~isConnected)
              => /\ jobs'[j].calls = jobs[j].calls
                 /\ jobs'[j].attempts = jobs[j].attempts]_vars

\* C11: under fair scheduling of timers and HTTP responses every submitted
\* job eventually is Succeeded or Exhausted, whatever the connectivity.
C11_JobTerminates ==
    (jobs # <<>>) ~>
        (\A j \in DOMAIN jobs : jobs[j].state \in {"Succeeded", "Exhausted"})

\* C12: when the audio mode or the creation of the recorder throws inside
\* startRecording, the step leaves the session Idle: the ref is empty, the
\* recording flag is false, no recorder handle is acquired and unreleased, no
\* duration timer is pending, and the guard of startRecording would accept
\* the next call.
C12_FailedStartRollsBack ==
    [][\A i \in DOMAIN starts, o \in RecorderOutcomes \ {"created"} :
          startCreate(i, o)
              => /\ recordingRef' = NULL
                 /\ ~isRecording'
                 /\ live' = {}
                 /\ timers' = {}
                 /\ ~StartRejected(recordingRef')]_vars

\* C13: a startRecording call captures the connectivity last delivered by
\* NetInfo; a call that captured false never reaches the recorder: when its
\* permission request is granted it ends with the "Network Error" alert, and
\* any call whose permission request is denied ends with the "Permission
\* required" alert; in both cases the call acquires no handle, arms no timer
\* and leaves the ref, the flag and the jobs as they are.
C13_OfflineOrDeniedStartFails ==
    /\ [](\A i \in DOMAIN starts : starts[i].pc = "record" => starts[i].isConnected)
    /\ [][/\ \A h \in DurationTexts, m \in DurationTexts :
               (startRecording(h, m) /\ recordingRef = NULL)
                   => starts'[Len(starts')].isConnected = isConnected
           /\ \A i \in DOMAIN starts, g \in BOOLEAN :
               (startPermission(i, g) /\ (~g \/ ~starts[i].isConnected))
                   => /\ alert' = IF g THEN "Network Error: before recording"
                                  ELSE "Permission required"
                      /\ Len(starts') = Len(starts) - 1
                      /\ UNCHANGED <<recordingRef, isRecording, timerId, timers,
                                     live, sess, stops, jobs, loading>>]_vars

C13_Witness ==
    /\ alert = "Network Error: before recording"
    /\ ~isConnected
    /\ recordingRef = NULL
    /\ live = {}
    /\ timers = {}
    /\ starts = <<>>

\* C14: when the release of the held handle settles inside stopRecording,
\* whether stopAndUnloadAsync resolved (with or without a URI) or threw, the
\* ref is empty, the handle is released and the guard of startRecording
\* accepts the next call; no job is ever created without a URI.
C14_StopAlwaysEndsIdle ==
    /\ [](\A j \in DOMAIN jobs : jobs[j].uri # NULL)
    /\ [][\A i \in DOMAIN stops, ok \in BOOLEAN, u \in BOOLEAN :
            (stopUnload(i, ok, u) /\ stops[i].target = recordingRef)
                => /\ recordingRef' = NULL
                   /\ ~isRecording'
                   /\ stops[i].target \notin live'
                   /\ ~StartRejected(recordingRef')
                   /\ jobs' = jobs]_vars

\* C15: at most one duration timer is pending, and one is pending only while
\* the ref holds the handle of the session that armed it with a positive
\* duration; none is pending while the ref is empty.
C15_TimerOnlyWhileActive ==
    /\ Cardinality(timers) <= 1
    /\ \A t \in timers : t.session = recordingRef /\ sess[t.session].timed

\* C16: a duration timer that expires while a handle is held was armed by
\* the session of that handle: it never stops another session.
C16_TimerStopsOwnSession ==
    [][\A t \in timers :
          (timerExpiry(t) /\ recordingRef # NULL) => t.session = recordingRef]_vars

\* C17: a stopRecording call (by the user or by a timer) that arrives while
\* an earlier stopRecording of the held handle is still running, or while
\* the ref is empty, starts no stopRecording continuation (so it releases
\* nothing and raises no recorder error) and creates no job.
C17_SecondStopIsNoOp ==
    [][((userStop \/ \E t \in timers : timerExpiry(t))
          /\ (recordingRef = NULL
                \/ \E i \in DOMAIN stops : stops[i].target = recordingRef))
          => /\ stops' = stops
             /\ live' = live
             /\ jobs' = jobs]_vars

\* C18: when a stopRecording call that read a non-empty URI comes to its end,
\* exactly one job exists for that URI; no URI ever has two jobs; and a job
\* keeps the URI, the file name and the endpoint of its first call.
C18_ExactlyOneJobPerSession ==
    /\ [](\A j \in DOMAIN jobs, k \in DOMAIN jobs :
            jobs[j].uri = jobs[k].uri => j = k)
    /\ [][/\ \A i \in DOMAIN stops, ok \in BOOLEAN :
               (stopAudioMode(i, ok) /\ stops[i].uri # NULL)
                   => Cardinality({j \in DOMAIN jobs' :
                                     jobs'[j].uri = stops[i].uri}) = 1
           /\ \A j \in DOMAIN jobs :
               /\ jobs'[j].uri = jobs[j].uri
               /\ jobs'[j].name = jobs[j].name
               /\ jobs'[j].endpoint = jobs[j].endpoint]_vars

\* C19 (as stated): the attempt counter is incremented before the HTTP call,
\* so it equals k while the k-th call of a job is in flight and when that
\* call has succeeded.
C19_CounterEqualsCallIndex ==
    \A j \in DOMAIN jobs :
        jobs[j].state \in {"InFlight", "Succeeded"} => jobs[j].attempts = jobs[j].calls

\* C19 (amended): a retry tick does not change the attempt counter, which
\* counts the calls that have failed: it equals k - 1 while the k-th call is
\* in flight and when that call has succeeded, and becomes k when it fails.
C19_CounterCountsFailedCalls ==
    /\ [](\A j \in DOMAIN jobs :
            jobs[j].state \in {"InFlight", "Succeeded"}
                => jobs[j].attempts = jobs[j].calls - 1)
    /\ [][\A j \in DOMAIN jobs :
            /\ retryTick(j) => jobs'[j].attempts = jobs[j].attempts
            /\ uploadResponse(j, FALSE) => jobs'[j].attempts = jobs[j].calls]_vars

C19_Witness ==
    \E j \in DOMAIN jobs :
        jobs[j].state = "InFlight" /\ jobs[j].calls = 3 /\ jobs[j].attempts = 2

\* C20: the endpoint to which the calls of a job are sent is the upload
\* endpoint last saved by handleSaveServerUrl at the moment stopRecording
\* creates the job, whether or not the file name was edited before or after
\* the server URL was saved.
C20_JobUsesSavedEndpoint ==
    [][\A i \in DOMAIN stops :
          (stopAudioMode(i, TRUE) /\ stops[i].uri # NULL)
              => jobs'[Len(jobs')].endpoint = uploadEndpoint]_vars
====
